---- MODULE Spec2Model ----
(***************************************************************************)
(* Model of the cohort CAC/LTV pipeline of src/src/cohort_cli.py:          *)
(* load_inputs -> build_mart_and_cohorts -> ltv_tables -> export_excel ->  *)
(* export_png, driven by main.                                             *)
(*                                                                         *)
(* Representation.  A 'YYYY-MM' month string is modelled by the number     *)
(* YYYYMM (y * 100 + m), whose numeric order is the string order.  A float *)
(* is an exact rational in lowest terms, or NaN, or a signed infinity.     *)
(* A data frame is a sequence of records (its rows in order); the pivoted  *)
(* LTV frame is a record of its row index, its column index and its cells. *)
(***************************************************************************)
EXTENDS Integers, Sequences, FiniteSets, TLC

\* ------------------------------------------------------------------ bounds
MaxOrders == 3
MaxNew == 2

\* ------------------------------------------------------------ input domains
Customers == {1, 2}
Channels == {"ads", "web"}
\* what is sold on each channel: an order on ads is worth 1, on web 2
Offers == { [channel |-> "ads", revenue |-> 1], [channel |-> "web", revenue |-> 2] }
Dates == { [y |-> 2023, m |-> 12, d |-> 5],
           [y |-> 2023, m |-> 12, d |-> 20],
           [y |-> 2024, m |-> 1,  d |-> 3] }
\* the rows a spend file may hold: December 2023 on both channels, January
\* 2024 on one
SpendRows == { [month |-> 202312, channel |-> "ads", spend |-> 3],
              [month |-> 202312, channel |-> "web", spend |-> 3],
              [month |-> 202401, channel |-> "ads", spend |-> 3] }

\* a row of the orders CSV
OrderRows ==
  { [ customer_id |-> c, order_date |-> dt, channel |-> o.channel, revenue |-> o.revenue ]
    : c \in Customers, dt \in Dates, o \in Offers }

ChannelRank(c) == IF c = "ads" THEN 0 ELSE 1

\* ranks that list the rows of an input file in one canonical order: the
\* pipeline's grouping and joins do not depend on the order of the rows
\* (ANY_VALUE, the one exception, is modelled as any choice)
OrderRowRank(r) ==
  (((r.customer_id * 400 + (r.order_date.y - 2000) * 12 + r.order_date.m) * 32
     + r.order_date.d) * 2 + ChannelRank(r.channel)) * 100 + r.revenue
SpendRowRank(r) == ((r.month - 200000) * 2 + ChannelRank(r.channel)) * 100 + r.spend

OrderFiles ==
  UNION { { f \in [1..n -> OrderRows] :
              \A i \in 1..(n - 1) : OrderRowRank(f[i]) <= OrderRowRank(f[i + 1]) }
          : n \in 0..MaxOrders }
\* direct arguments of ltv_tables, as a unit test passes them: revenue per
\* (cohort_month, months_since_cohort) and new_customers per cohort_month
LtvKeys == { << 202301, 0 >>, << 202301, 1 >>, << 202301, 2 >>,
             << 202302, 0 >>, << 202302, 1 >> }
LtvRevenues == {-1, 0, 50, 100}
LtvNewCustomers == (0..MaxNew) \cup {10}
LtvCohorts == { k[1] : k \in LtvKeys }

RECURSIVE SpendFileOf(_)
\* the spend file with the rows S, in rank order
SpendFileOf(S) ==
  IF S = {} THEN << >>
  ELSE LET lo == CHOOSE r \in S : \A z \in S : SpendRowRank(r) <= SpendRowRank(z)
       IN  << lo >> \o SpendFileOf(S \ {lo})

SpendFiles == { SpendFileOf(S) : S \in SUBSET SpendRows }

\* ------------------------------------------------------------------ floats
RECURSIVE Gcd(_, _)
Gcd(a, b) == IF b = 0 THEN a ELSE Gcd(b, a % b)

Abs(x) == IF x < 0 THEN -x ELSE x

NaN == [k |-> "nan", n |-> 0, d |-> 1]
Inf(sign) == [k |-> "inf", n |-> sign, d |-> 0]

\* the float n / d for integers n and d > 0, in lowest terms
Num(n, d) ==
  LET g == Gcd(Abs(n), d)
  IN  [k |-> "num", n |-> n \div g, d |-> d \div g]

Zero == Num(0, 1)
FromInt(i) == Num(i, 1)

IsNum(a) == a.k = "num"
IsNaN(a) == a.k = "nan"
IsInf(a) == a.k = "inf"

\* IEEE addition as pandas applies it element-wise
FAdd(a, b) ==
  IF IsNaN(a) \/ IsNaN(b) THEN NaN
  ELSE IF IsInf(a) /\ IsInf(b) THEN (IF a.n = b.n THEN a ELSE NaN)
  ELSE IF IsInf(a) THEN a
  ELSE IF IsInf(b) THEN b
  ELSE Num(a.n * b.d + b.n * a.d, a.d * b.d)

\* IEEE division as pandas applies it element-wise: no exception is raised,
\* x / 0 is a signed infinity for x # 0 and NaN for x = 0
FDiv(a, b) ==
  IF IsNaN(a) \/ IsNaN(b) THEN NaN
  ELSE IF IsInf(b) THEN (IF IsInf(a) THEN NaN ELSE Zero)
  ELSE IF b.n = 0 THEN
         (IF IsInf(a) THEN a
          ELSE IF a.n = 0 THEN NaN
          ELSE IF a.n > 0 THEN Inf(1) ELSE Inf(-1))
  ELSE IF IsInf(a) THEN (IF b.n > 0 THEN a ELSE Inf(-a.n))
  ELSE IF b.n > 0 THEN Num(a.n * b.d, a.d * b.n)
  ELSE Num(-(a.n * b.d), a.d * (-b.n))

\* a <= b on floats that are numbers
FLeq(a, b) == a.n * b.d <= b.n * a.d

\* Series.replace(0, np.nan) followed by the conversion to float
ReplaceZeroNaN(i) == IF i = 0 THEN NaN ELSE FromInt(i)

\* ------------------------------------------------------------------- dates
\* a <= b on calendar dates
DateLeq(a, b) ==
  \/ a.y < b.y
  \/ a.y = b.y /\ a.m < b.m
  \/ a.y = b.y /\ a.m = b.m /\ a.d <= b.d

\* MIN(order_date) over a non-empty set of dates
MinDate(S) == CHOOSE a \in S : \A b \in S : DateLeq(a, b)

\* strftime(date, '%Y-%m') and Series.dt.to_period("M").astype(str)
YearMonth(date) == date.y * 100 + date.m

\* date_trunc('month', date)
DateTruncMonth(date) == [y |-> date.y, m |-> date.m, d |-> 1]

\* the variant of DateDiffMonth that subtracts the month numbers only
DateDiffMonthOfYear(a, b) == b.m - a.m

\* date_diff('month', a, b): month boundaries crossed from a to b
DateDiffMonth(a, b) == (b.y - a.y) * 12 + (b.m - a.m)

\* ------------------------------------------------------------ set helpers
RECURSIVE SumOver(_, _)
\* sum of the integer field f over a set of records with distinct rows
SumOver(S, f) ==
  IF S = {} THEN 0
  ELSE LET r == CHOOSE x \in S : TRUE
       IN  r[f] + SumOver(S \ {r}, f)

RECURSIVE SortedSeq(_)
\* the ascending sequence of a finite set of integers
SortedSeq(S) ==
  IF S = {} THEN << >>
  ELSE LET lo == CHOOSE x \in S : \A z \in S : x <= z
       IN  << lo >> \o SortedSeq(S \ {lo})

Range(s) == { s[i] : i \in DOMAIN s }

RECURSIVE SortedPairs(_)
\* the ascending sequence (first component, then second) of a set of pairs
SortedPairs(S) ==
  IF S = {} THEN << >>
  ELSE LET lo == CHOOSE x \in S : \A z \in S :
                   x[1] < z[1] \/ (x[1] = z[1] /\ x[2] <= z[2])
       IN  << lo >> \o SortedPairs(S \ {lo})

\* ------------------------------------------------------------- load_inputs
\* the orders frame: the CSV rows (order_id is the row number) with the
\* derived order_month column
LoadOrders(csv) ==
  [ i \in DOMAIN csv |->
      [ order_id    |-> i,
        order_date  |-> csv[i].order_date,
        order_month |-> YearMonth(csv[i].order_date),
        customer_id |-> csv[i].customer_id,
        channel     |-> csv[i].channel,
        revenue     |-> csv[i].revenue ] ]

\* the spend frame; month is already text in the CSV and astype(str) keeps it
LoadSpend(csv) == csv

\* ------------------------------------------------- build_mart_and_cohorts
\* table fact_orders: the rows of the orders frame
FactOrders(ord) == Range(ord)

CustomerIds(fact) == { r.customer_id : r \in fact }

OrdersOf(fact, c) == { r \in fact : r.customer_id = c }

\* the values ANY_VALUE(channel) may return for each customer group
ChannelPicks(fact) ==
  { pick \in [CustomerIds(fact) -> Channels] :
      \A c \in CustomerIds(fact) :
        pick[c] \in { r.channel : r \in OrdersOf(fact, c) } }

\* the group-by expression of first_orders
FirstOrdersGroups(fact) == CustomerIds(fact)

\* the variant of FirstOrders that groups by customer_id and order_month
FirstOrdersPerMonth(fact, pick) ==
  { [ customer_id         |-> g[1],
      first_order_date    |-> MinDate({ r.order_date :
                                r \in { x \in OrdersOf(fact, g[1]) : x.order_month = g[2] } }),
      cohort_month        |-> g[2],
      acquisition_channel |-> pick[g[1]] ]
    : g \in { << r.customer_id, r.order_month >> : r \in fact } }

\* table first_orders: one row per group, ANY_VALUE resolved by pick
FirstOrders(fact, pick) ==
  { [ customer_id         |-> c,
      first_order_date    |-> MinDate({ r.order_date : r \in OrdersOf(fact, c) }),
      cohort_month        |-> YearMonth(MinDate({ r.order_date : r \in OrdersOf(fact, c) })),
      acquisition_channel |-> pick[c] ] : c \in FirstOrdersGroups(fact) }

\* months_since_cohort of an order row joined to its first_orders row
MonthsSinceCohort(f, fo) ==
  DateDiffMonth(DateTruncMonth(fo.first_order_date), DateTruncMonth(f.order_date))

\* the variant of Fct that also joins on channel = acquisition_channel
FctOnAcquisitionChannel(fact, fos) ==
  { [ order_id            |-> p[1].order_id,
      order_date          |-> p[1].order_date,
      order_month         |-> p[1].order_month,
      customer_id         |-> p[1].customer_id,
      channel             |-> p[1].channel,
      revenue             |-> p[1].revenue,
      cohort_month        |-> p[2].cohort_month,
      acquisition_channel |-> p[2].acquisition_channel,
      months_since_cohort |-> MonthsSinceCohort(p[1], p[2]) ]
    : p \in { q \in fact \X fos : /\ q[1].customer_id = q[2].customer_id
                                  /\ q[1].channel = q[2].acquisition_channel } }

\* table fct: fact_orders JOIN first_orders USING (customer_id)
Fct(fact, fos) ==
  { [ order_id            |-> p[1].order_id,
      order_date          |-> p[1].order_date,
      order_month         |-> p[1].order_month,
      customer_id         |-> p[1].customer_id,
      channel             |-> p[1].channel,
      revenue             |-> p[1].revenue,
      cohort_month        |-> p[2].cohort_month,
      acquisition_channel |-> p[2].acquisition_channel,
      months_since_cohort |-> MonthsSinceCohort(p[1], p[2]) ]
    : p \in { q \in fact \X fos : q[1].customer_id = q[2].customer_id } }

\* the groups of cohort_rev: GROUP BY cohort_month, months_since_cohort
CohortRevKeys(fctT) == { << r.cohort_month, r.months_since_cohort >> : r \in fctT }

\* frame cohort_rev: SUM(revenue) per group, ORDER BY 1,2
CohortRev(fctT) ==
  LET keys == SortedPairs(CohortRevKeys(fctT))
  IN  [ i \in DOMAIN keys |->
          [ cohort_month        |-> keys[i][1],
            months_since_cohort |-> keys[i][2],
            revenue |-> SumOver({ r \in fctT : /\ r.cohort_month = keys[i][1]
                                               /\ r.months_since_cohort = keys[i][2] },
                                "revenue") ] ]

\* frame acq_counts: COUNT(DISTINCT customer_id) per cohort_month, ORDER BY 1
AcqCounts(fos) ==
  LET months == SortedSeq({ fo.cohort_month : fo \in fos })
  IN  [ i \in DOMAIN months |->
          [ cohort_month  |-> months[i],
            new_customers |-> Cardinality({ fo.customer_id :
                                  fo \in { x \in fos : x.cohort_month = months[i] } }) ] ]

\* the variant of SpendByMonth that keeps the first spend row of each month
SpendByMonthFirst(sp) ==
  LET months == SortedSeq({ sp[i].month : i \in DOMAIN sp })
  IN  [ j \in DOMAIN months |->
          [ cohort_month |-> months[j],
            spend_total  |-> sp[CHOOSE i \in DOMAIN sp :
                                  /\ sp[i].month = months[j]
                                  /\ \A x \in DOMAIN sp : sp[x].month = months[j] => i <= x].spend ] ]

\* spend.groupby("month")["spend"].sum(), renamed; groupby sorts its keys
SpendByMonth(sp) ==
  LET months == SortedSeq({ sp[i].month : i \in DOMAIN sp })
  IN  [ j \in DOMAIN months |->
          [ cohort_month |-> months[j],
            spend_total  |-> SumOver({ [ row |-> i, spend |-> sp[i].spend ] :
                                         i \in { x \in DOMAIN sp : sp[x].month = months[j] } },
                                     "spend") ] ]

RECURSIVE Concat(_)
\* the concatenation of a sequence of sequences
Concat(ss) == IF ss = << >> THEN << >> ELSE Head(ss) \o Concat(Tail(ss))

\* the indices of the rows of frame right whose cohort_month is cm, ascending
Matches(right, cm) == SortedSeq({ j \in DOMAIN right : right[j].cohort_month = cm })

\* the variant of MergeSpend that merges with how="outer": the months that
\* only the spend frame has follow, with no new_customers
MergeSpendOuter(acq, sbm) ==
  Concat([ i \in DOMAIN acq |->
    LET ms == Matches(sbm, acq[i].cohort_month)
    IN  IF ms = << >>
        THEN << [ cohort_month  |-> acq[i].cohort_month,
                  new_customers |-> acq[i].new_customers,
                  spend_total   |-> Zero ] >>
        ELSE [ k \in DOMAIN ms |->
                 [ cohort_month  |-> acq[i].cohort_month,
                   new_customers |-> acq[i].new_customers,
                   spend_total   |-> FromInt(sbm[ms[k]].spend_total) ] ] ])
  \o Concat([ j \in DOMAIN sbm |->
        IF Matches(acq, sbm[j].cohort_month) = << >>
        THEN << [ cohort_month  |-> sbm[j].cohort_month,
                  new_customers |-> 0,
                  spend_total   |-> FromInt(sbm[j].spend_total) ] >>
        ELSE << >> ])

\* acq_counts.merge(spend_by_month, how="left").fillna({"spend_total": 0})
MergeSpend(acq, sbm) ==
  Concat([ i \in DOMAIN acq |->
    LET ms == Matches(sbm, acq[i].cohort_month)
    IN  IF ms = << >>
        THEN << [ cohort_month  |-> acq[i].cohort_month,
                  new_customers |-> acq[i].new_customers,
                  spend_total   |-> Zero ] >>
        ELSE [ k \in DOMAIN ms |->
                 [ cohort_month  |-> acq[i].cohort_month,
                   new_customers |-> acq[i].new_customers,
                   spend_total   |-> FromInt(sbm[ms[k]].spend_total) ] ] ])

\* frame cac: the merged frame with the CAC column
Cac(acq, sp) ==
  LET merged == MergeSpend(acq, SpendByMonth(sp))
  IN  [ i \in DOMAIN merged |->
          [ cohort_month  |-> merged[i].cohort_month,
            new_customers |-> merged[i].new_customers,
            spend_total   |-> merged[i].spend_total,
            CAC |-> FDiv(merged[i].spend_total,
                         ReplaceZeroNaN(merged[i].new_customers)) ] ]

\* -------------------------------------------------------------- ltv_tables
\* cohort_rev.merge(acq_counts, how="left") with the ltv column; the inputs
\* have one acq_counts row per cohort_month at most
LtvRows(crev, acq) ==
  [ i \in DOMAIN crev |->
      LET ms == Matches(acq, crev[i].cohort_month)
          nc == IF ms = << >> THEN NaN ELSE ReplaceZeroNaN(acq[ms[1]].new_customers)
      IN  [ cohort_month        |-> crev[i].cohort_month,
            months_since_cohort |-> crev[i].months_since_cohort,
            ltv                 |-> FDiv(FromInt(crev[i].revenue), nc) ] ]

\* the variant of PivotCell without fillna(0)
PivotCellNoFill(rows, cm, off) ==
  LET hit == { i \in DOMAIN rows : /\ rows[i].cohort_month = cm
                                   /\ rows[i].months_since_cohort = off }
  IN  IF hit = {} THEN NaN ELSE rows[CHOOSE i \in hit : TRUE].ltv

\* the cell of the pivot at (cm, off) after fillna(0)
PivotCell(rows, cm, off) ==
  LET hit == { i \in DOMAIN rows : /\ rows[i].cohort_month = cm
                                   /\ rows[i].months_since_cohort = off }
  IN  IF hit = {} THEN Zero
      ELSE LET v == rows[CHOOSE i \in hit : TRUE].ltv
           IN  IF IsNaN(v) THEN Zero ELSE v

\* ltv.pivot(index, columns, values).fillna(0).sort_index()
LtvPivot(rows) ==
  LET idx  == SortedSeq({ rows[i].cohort_month : i \in DOMAIN rows })
      cols == SortedSeq({ rows[i].months_since_cohort : i \in DOMAIN rows })
  IN  [ index   |-> idx,
        columns |-> cols,
        data    |-> [ p \in Range(idx) \X Range(cols) |-> PivotCell(rows, p[1], p[2]) ] ]

RECURSIVE SumSkipNaN(_, _, _)
\* the sum of the cells of row cm of frame f in columns 1..j that are not NaN
SumSkipNaN(f, cm, j) ==
  IF j = 0 THEN Zero
  ELSE LET v == f.data[<< cm, f.columns[j] >>]
       IN  IF IsNaN(v) THEN SumSkipNaN(f, cm, j - 1)
           ELSE FAdd(SumSkipNaN(f, cm, j - 1), v)

\* the subtracting variant of RowCumSum
RowCumSumMinus(f, cm, j) ==
  IF IsNaN(f.data[<< cm, f.columns[j] >>]) THEN NaN
  ELSE LET prev == SumSkipNaN(f, cm, j - 1)
           v    == f.data[<< cm, f.columns[j] >>]
       IN  FAdd(prev, Num(-v.n, v.d))

\* the running sum of row cm of frame f at its j-th column (skipna: a NaN
\* cell stays NaN and is left out of the sum)
RowCumSum(f, cm, j) ==
  IF IsNaN(f.data[<< cm, f.columns[j] >>]) THEN NaN
  ELSE SumSkipNaN(f, cm, j)

\* the variant of CumSumAxis1 that returns the frame as it is
CumSumAxis1Missing(f) == f

\* DataFrame.cumsum(axis=1)
CumSumAxis1(f) ==
  [ index   |-> f.index,
    columns |-> f.columns,
    data    |-> [ p \in Range(f.index) \X Range(f.columns) |->
                    RowCumSum(f, p[1],
                              CHOOSE j \in DOMAIN f.columns : f.columns[j] = p[2]) ] ]

LtvTables(crev, acq) == CumSumAxis1(LtvPivot(LtvRows(crev, acq)))

\* ------------------------------------------------------------ export_excel
\* ltv_cum.columns.max() if len(ltv_cum.columns) else 0
Latest(f) ==
  IF Len(f.columns) > 0
  THEN CHOOSE c \in Range(f.columns) : \A z \in Range(f.columns) : z <= c
  ELSE 0

\* ltv_cum[[latest]] raises KeyError when latest is not a column
SummaryRaises(f) == Latest(f) \notin Range(f.columns)

\* the LTV_to_CAC column
LtvToCac(ltvLatest, cacV) == FDiv(ltvLatest, cacV)

\* the summary frame: LTV_latest, left merge of CAC, LTV_to_CAC
Summary(f, cacF) ==
  Concat([ i \in DOMAIN f.index |->
    LET cm == f.index[i]
        lv == f.data[<< cm, Latest(f) >>]
        ms == Matches(cacF, cm)
    IN  IF ms = << >>
        THEN << [ cohort_month |-> cm, LTV_latest |-> lv, CAC |-> NaN,
                  LTV_to_CAC |-> LtvToCac(lv, NaN) ] >>
        ELSE [ k \in DOMAIN ms |->
                 [ cohort_month |-> cm, LTV_latest |-> lv, CAC |-> cacF[ms[k]].CAC,
                   LTV_to_CAC |-> LtvToCac(lv, cacF[ms[k]].CAC) ] ] ])

\* ------------------------------------------------------------------- state
VARIABLES
  orders_csv,    \* the rows of the --orders file
  spend_csv,     \* the rows of the --spend file
  pc,            \* the statement of main the run is at
  failed_at,     \* the step whose exception ended the run, "" if none
  orders,        \* frame orders of main
  spend,         \* frame spend of main
  first_orders,  \* table first_orders of the DuckDB connection
  fct,           \* table fct of the DuckDB connection
  cohort_rev,    \* frame cohort_rev
  acq_counts,    \* frame acq_counts
  cac,           \* frame cac
  ltv_cum,       \* frame ltv_cum
  summary,       \* frame summary
  xlsx_written,  \* this run has written the spreadsheet file
  png_written,   \* this run has written the chart image
  run,           \* 1 in the first run of main, 2 in the run that repeats it
  prev           \* what the first run computed, once it is over

vars == << orders_csv, spend_csv, pc, failed_at, orders, spend, first_orders, fct,
           cohort_rev, acq_counts, cac, ltv_cum, summary, xlsx_written, png_written,
           run, prev >>

inputs == << orders_csv, spend_csv, run, prev >>
frames == << orders, spend >>
mart == << first_orders, fct, cohort_rev, acq_counts, cac >>
files == << xlsx_written, png_written >>

NoFrame == [ index |-> << >>, columns |-> << >>, data |-> << >> ]

NoRun == [ first_orders |-> {}, ltv_cum |-> NoFrame, summary |-> << >> ]

\* nothing computed, nothing written: the state main starts from
Blank ==
  /\ failed_at = ""
  /\ orders = << >> /\ spend = << >>
  /\ first_orders = {} /\ fct = {}
  /\ cohort_rev = << >> /\ acq_counts = << >> /\ cac = << >>
  /\ ltv_cum = NoFrame /\ summary = << >>
  /\ xlsx_written = FALSE /\ png_written = FALSE

Init ==
  /\ orders_csv \in OrderFiles
  /\ spend_csv \in SpendFiles
  /\ pc = "load"
  /\ run = 1
  /\ prev = NoRun
  /\ Blank

\* frame cohort_rev with the rows of the partial function rev, in key order
RevFrame(rev) ==
  LET keys == SortedPairs(DOMAIN rev)
  IN  [ i \in DOMAIN keys |->
          [ cohort_month |-> keys[i][1], months_since_cohort |-> keys[i][2],
            revenue |-> rev[keys[i]] ] ]

\* frame acq_counts with the rows of the partial function cnt, in key order
AcqFrame(cnt) ==
  LET months == SortedSeq(DOMAIN cnt)
  IN  [ i \in DOMAIN months |->
          [ cohort_month |-> months[i], new_customers |-> cnt[months[i]] ] ]

\* ltv_tables called on its own with frames built by the caller
InitLtv ==
  /\ orders_csv = << >>
  /\ spend_csv = << >>
  /\ pc = "ltv"
  /\ failed_at = ""
  /\ orders = << >> /\ spend = << >>
  /\ first_orders = {} /\ fct = {}
  /\ \E K \in SUBSET LtvKeys : \E rev \in [K -> LtvRevenues] :
       cohort_rev = RevFrame(rev)
  /\ \E M \in SUBSET LtvCohorts : \E cnt \in [M -> LtvNewCustomers] :
       acq_counts = AcqFrame(cnt)
  /\ cac = << >>
  /\ ltv_cum = NoFrame /\ summary = << >>
  /\ xlsx_written = FALSE /\ png_written = FALSE
  /\ run = 1
  /\ prev = NoRun

\* an exception propagates out of main: the run ends at this step
Raise(step) ==
  /\ pc' = "failed"
  /\ failed_at' = step

\* main: orders, spend = load_inputs(...)
LoadInputs ==
  /\ pc = "load"
  /\ orders' = LoadOrders(orders_csv)
  /\ spend' = LoadSpend(spend_csv)
  /\ pc' = "mart"
  /\ UNCHANGED << inputs, failed_at, mart, ltv_cum, summary, files >>

\* load_inputs raises: a file is missing, order_date does not parse, or the
\* month column is absent
LoadInputsFails ==
  /\ pc = "load"
  /\ Raise("load_inputs")
  /\ UNCHANGED << inputs, frames, mart, ltv_cum, summary, files >>

\* main: cohort_rev, acq_counts, cac = build_mart_and_cohorts(orders, spend)
BuildMart ==
  /\ pc = "mart"
  /\ \E pick \in ChannelPicks(FactOrders(orders)) :
       LET fact == FactOrders(orders)
           fos  == FirstOrders(fact, pick)
       IN  /\ first_orders' = fos
           /\ fct' = Fct(fact, fos)
           /\ cohort_rev' = CohortRev(Fct(fact, fos))
           /\ acq_counts' = AcqCounts(fos)
           /\ cac' = Cac(AcqCounts(fos), spend)
  /\ pc' = "ltv"
  /\ UNCHANGED << inputs, failed_at, frames, ltv_cum, summary, files >>

\* build_mart_and_cohorts raises: a column the SQL or the groupby names is
\* absent from the file
BuildMartFails ==
  /\ pc = "mart"
  /\ Raise("build_mart_and_cohorts")
  /\ UNCHANGED << inputs, frames, mart, ltv_cum, summary, files >>

\* main: ltv_cum = ltv_tables(cohort_rev, acq_counts)
LtvTablesStep ==
  /\ pc = "ltv"
  /\ ltv_cum' = LtvTables(cohort_rev, acq_counts)
  /\ pc' = "excel"
  /\ UNCHANGED << inputs, failed_at, frames, mart, summary, files >>

\* the variant of ExportExcelSummary that opens the writer and saves the
\* LTV sheet before it computes the summary
ExportExcelSummaryAfterWrite ==
  /\ pc = "excel"
  /\ xlsx_written' = TRUE
  /\ IF SummaryRaises(ltv_cum)
     THEN /\ Raise("summary")
          /\ UNCHANGED summary
     ELSE /\ summary' = Summary(ltv_cum, cac)
          /\ pc' = "write"
          /\ UNCHANGED failed_at
  /\ UNCHANGED << inputs, frames, mart, ltv_cum, png_written >>

\* export_excel up to the summary frame, before the writer is opened (the
\* mkdir of line 104 creates a directory, not an output file)
ExportExcelSummary ==
  /\ pc = "excel"
  /\ IF SummaryRaises(ltv_cum)
     THEN /\ Raise("summary")
          /\ UNCHANGED summary
     ELSE /\ summary' = Summary(ltv_cum, cac)
          /\ pc' = "write"
          /\ UNCHANGED failed_at
  /\ UNCHANGED << inputs, frames, mart, ltv_cum, files >>

\* export_excel: the with-block of the ExcelWriter; the file is saved when
\* the block is left
ExportExcelWrite ==
  /\ pc = "write"
  /\ xlsx_written' = TRUE
  /\ pc' = "png"
  /\ UNCHANGED << inputs, failed_at, frames, mart, ltv_cum, summary, png_written >>

\* the with-block raises: either the file cannot be created, or a statement
\* of the block raises and the writer still saves the file on leaving it
ExportExcelWriteFails ==
  /\ pc = "write"
  /\ Raise("export_excel")
  /\ xlsx_written' \in BOOLEAN
  /\ UNCHANGED << inputs, frames, mart, ltv_cum, summary, png_written >>

\* main: export_png(summary, ...)
ExportPng ==
  /\ pc = "png"
  /\ png_written' = TRUE
  /\ pc' = "done"
  /\ UNCHANGED << inputs, failed_at, frames, mart, ltv_cum, summary, xlsx_written >>

\* export_png raises, before savefig or while it writes the image
ExportPngFails ==
  /\ pc = "png"
  /\ Raise("export_png")
  /\ png_written' \in BOOLEAN
  /\ UNCHANGED << inputs, frames, mart, ltv_cum, summary, xlsx_written >>

\* the command is run again on the same two files
Rerun ==
  /\ pc = "done"
  /\ run = 1
  /\ run' = 2
  /\ prev' = [ first_orders |-> first_orders, ltv_cum |-> ltv_cum, summary |-> summary ]
  /\ pc' = "load"
  /\ failed_at' = ""
  /\ orders' = << >> /\ spend' = << >>
  /\ first_orders' = {} /\ fct' = {}
  /\ cohort_rev' = << >> /\ acq_counts' = << >> /\ cac' = << >>
  /\ ltv_cum' = NoFrame /\ summary' = << >>
  /\ xlsx_written' = FALSE /\ png_written' = FALSE
  /\ UNCHANGED << orders_csv, spend_csv >>

Next ==
  \/ LoadInputs
  \/ LoadInputsFails
  \/ BuildMart
  \/ BuildMartFails
  \/ LtvTablesStep
  \/ ExportExcelSummary
  \/ ExportExcelWrite
  \/ ExportExcelWriteFails
  \/ ExportPng
  \/ ExportPngFails
  \/ Rerun

Spec == Init /\ [][Next]_vars

NextLtv == LtvTablesStep

SpecLtv == InitLtv /\ [][NextLtv]_vars

\* ------------------------------------------------------------ observations
\* the rows of frame cohort_rev for cohort cm at offset off
RevRows(cm, off) ==
  { i \in DOMAIN cohort_rev : /\ cohort_rev[i].cohort_month = cm
                              /\ cohort_rev[i].months_since_cohort = off }

\* the rows of frame acq_counts for cohort cm
AcqRows(cm) == { i \in DOMAIN acq_counts : acq_counts[i].cohort_month = cm }

\* ltv_tables has just returned
LtvReturned == pc = "excel"

\* C1: when ltv_tables is given a cohort with N > 0 new customers, revenue
\* R0 at months_since_cohort 0 and R1 at months_since_cohort 1, the returned
\* table has R0/N in column 0 and (R0+R1)/N in column 1 of that cohort's row.
C1_LtvSimple ==
  LtvReturned =>
    \A cm \in LtvCohorts :
      \A i0 \in RevRows(cm, 0) : \A i1 \in RevRows(cm, 1) : \A a \in AcqRows(cm) :
        acq_counts[a].new_customers > 0 =>
          /\ ltv_cum.data[<< cm, 0 >>] =
               Num(cohort_rev[i0].revenue, acq_counts[a].new_customers)
          /\ ltv_cum.data[<< cm, 1 >>] =
               Num(cohort_rev[i0].revenue + cohort_rev[i1].revenue,
                   acq_counts[a].new_customers)

\* the case of test_ltv_simple: 100 and 50 over 10 customers give 10 and 15
C1_Witness ==
  /\ LtvReturned
  /\ cohort_rev = << [cohort_month |-> 202301, months_since_cohort |-> 0, revenue |-> 100],
                     [cohort_month |-> 202301, months_since_cohort |-> 1, revenue |-> 50] >>
  /\ acq_counts = << [cohort_month |-> 202301, new_customers |-> 10] >>
  /\ ltv_cum.data[<< 202301, 0 >>] = FromInt(10)
  /\ ltv_cum.data[<< 202301, 1 >>] = FromInt(15)

\* every revenue of frame cohort_rev is >= 0
RevenueNonNegative == \A i \in DOMAIN cohort_rev : cohort_rev[i].revenue >= 0

\* row cm of frame f does not decrease from column to column
RowMonotone(f, cm) ==
  \A j \in 1..(Len(f.columns) - 1) :
    LET a == f.data[<< cm, f.columns[j] >>]
        b == f.data[<< cm, f.columns[j + 1] >>]
    IN  IsNum(a) /\ IsNum(b) /\ FLeq(a, b)

\* C4: whenever every revenue is >= 0, each row of the table returned by
\* ltv_tables is non-decreasing as months_since_cohort increases.
C4_Monotone ==
  (LtvReturned /\ RevenueNonNegative) =>
    \A cm \in Range(ltv_cum.index) : RowMonotone(ltv_cum, cm)

\* a row over three offsets that grows at each of them
C4_Witness ==
  /\ LtvReturned /\ RevenueNonNegative
  /\ Len(ltv_cum.columns) = 3
  /\ \E cm \in Range(ltv_cum.index) :
       /\ ltv_cum.data[<< cm, 0 >>] = FromInt(50)
       /\ ltv_cum.data[<< cm, 1 >>] = FromInt(100)
       /\ ltv_cum.data[<< cm, 2 >>] = FromInt(200)

\* build_mart_and_cohorts has just returned
MartBuilt == pc = "ltv"

\* the rows of the orders file of customer c
FileRowsOf(c) == { i \in DOMAIN orders_csv : orders_csv[i].customer_id = c }

\* the customers of the orders file
FileCustomers == { orders_csv[i].customer_id : i \in DOMAIN orders_csv }

\* the rows of customer c that no row of c precedes
EarliestRows(c) ==
  { i \in FileRowsOf(c) :
      \A j \in FileRowsOf(c) : DateLeq(orders_csv[i].order_date, orders_csv[j].order_date) }

\* the months of the calendar counted from year 0
MonthNumber(date) == date.y * 12 + date.m

\* the calendar months that begin after date a and no later than date b
MonthsBetween(a, b) ==
  { k \in MonthNumber(a)..MonthNumber(b) : k > MonthNumber(a) }

\* C2: every enriched order of table fct has months_since_cohort >= 0; it is
\* 0 exactly when the order falls in the calendar month of its customer's
\* earliest order, and it counts the calendar months from the month of that
\* earliest order to the month of the order.
C2_MonthsSinceCohort ==
  MartBuilt =>
    \A r \in fct : \A e \in EarliestRows(r.customer_id) :
      LET first == orders_csv[e].order_date
      IN  /\ r.months_since_cohort >= 0
          /\ (r.months_since_cohort = 0) <=>
               (r.order_date.y = first.y /\ r.order_date.m = first.m)
          /\ r.months_since_cohort = Cardinality(MonthsBetween(first, r.order_date))

\* a customer who orders on 2023-12-05, again later that month and again in
\* January 2024: offsets 0, 0 and 1
C2_Witness ==
  /\ MartBuilt
  /\ \E r0 \in fct, r1 \in fct, r2 \in fct :
       /\ r0.customer_id = r1.customer_id /\ r1.customer_id = r2.customer_id
       /\ r0.order_date.d = 5 /\ r0.months_since_cohort = 0
       /\ r1.order_date.d = 20 /\ r1.months_since_cohort = 0
       /\ r2.order_date.y = 2024 /\ r2.months_since_cohort = 1

RECURSIVE SumNewCustomers(_)
\* the sum of column new_customers of a frame
SumNewCustomers(f) ==
  IF f = << >> THEN 0 ELSE Head(f).new_customers + SumNewCustomers(Tail(f))

\* C3: each distinct customer_id is assigned exactly one cohort_month, the
\* month of its earliest order, and the new_customers of acq_counts sum to
\* the number of distinct customer_id values of the orders.
C3_OneCohortPerCustomer ==
  MartBuilt =>
    /\ \A c \in FileCustomers :
         /\ Cardinality({ fo \in first_orders : fo.customer_id = c }) = 1
         /\ \A fo \in first_orders : \A e \in EarliestRows(c) :
              fo.customer_id = c =>
                fo.cohort_month = YearMonth(orders_csv[e].order_date)
    /\ \A fo \in first_orders : fo.customer_id \in FileCustomers
    /\ SumNewCustomers(acq_counts) = Cardinality(FileCustomers)

\* two customers acquired in different months, one of them ordering in both
C3_Witness ==
  /\ MartBuilt
  /\ Cardinality(FileCustomers) = 2
  /\ Len(acq_counts) = 2
  /\ \E c \in FileCustomers :
       Cardinality({ orders_csv[i].order_date.m : i \in FileRowsOf(c) }) = 2

\* export_excel has just built the summary frame
SummaryBuilt == pc = "write"

\* the run has passed the summary computation of export_excel
SummaryPassed ==
  \/ pc \in {"write", "png", "done"}
  \/ pc = "failed" /\ failed_at \in {"export_excel", "export_png"}

\* C5: LTV_to_CAC of a summary row is the undefined marker (NaN) whenever
\* the row's CAC is undefined or not positive; no infinite or numeric value
\* appears there.
C5_RatioUndefined ==
  SummaryBuilt =>
    \A i \in DOMAIN summary :
      (IsNaN(summary[i].CAC) \/ (IsNum(summary[i].CAC) /\ summary[i].CAC.n <= 0))
        => IsNaN(summary[i].LTV_to_CAC)

\* the months of the first orders, from the orders file
FileCohorts ==
  { YearMonth(orders_csv[e].order_date) :
      e \in UNION { EarliestRows(c) : c \in FileCustomers } }

\* the rows of the spend file of month m
FileSpendRows(m) == { i \in DOMAIN spend_csv : spend_csv[i].month = m }

RECURSIVE SumSpendRows(_)
\* the sum of column spend over a set of rows of the spend file
SumSpendRows(I) ==
  IF I = {} THEN 0
  ELSE LET i == CHOOSE x \in I : TRUE
       IN  spend_csv[i].spend + SumSpendRows(I \ {i})

RECURSIVE SumSpendTotal(_)
\* the sum of column spend_total of a frame
SumSpendTotal(f) ==
  IF f = << >> THEN Zero ELSE FAdd(Head(f).spend_total, SumSpendTotal(Tail(f)))

\* C6: frame cac has exactly one row per cohort_month of acq_counts and no
\* others; a month with spend rows but no first order never appears in cac,
\* and its spend is not added to any cohort: the spend_total of cac add up
\* to the spend of the months that are cohorts.
C6_CacRowsAreCohorts ==
  MartBuilt =>
    /\ Len(cac) = Len(acq_counts)
    /\ \A i \in DOMAIN cac : cac[i].cohort_month = acq_counts[i].cohort_month
    /\ \A i \in DOMAIN cac, j \in DOMAIN cac :
         cac[i].cohort_month = cac[j].cohort_month => i = j
    /\ { cac[i].cohort_month : i \in DOMAIN cac } = FileCohorts
    /\ SumSpendTotal(cac) =
         FromInt(SumSpendRows({ i \in DOMAIN spend_csv : spend_csv[i].month \in FileCohorts }))

\* spend in January 2024 while every customer was acquired in December 2023
C6_Witness ==
  /\ MartBuilt
  /\ FileSpendRows(202401) # {}
  /\ Len(cac) = 1
  /\ cac[1].cohort_month = 202312

\* C7: for every cohort_month of acq_counts, spend_total is the sum of spend
\* over the spend rows of that month on all channels, 0 when there are none;
\* the cohort then still has its cac row with CAC = 0, a number: CAC is the
\* undefined marker only when new_customers = 0.
C7_SpendTotal ==
  MartBuilt =>
    \A a \in DOMAIN acq_counts :
      \E i \in DOMAIN cac :
        /\ cac[i].cohort_month = acq_counts[a].cohort_month
        /\ cac[i].spend_total =
             FromInt(SumSpendRows(FileSpendRows(cac[i].cohort_month)))
        /\ FileSpendRows(cac[i].cohort_month) = {} =>
             (cac[i].spend_total = Zero /\ cac[i].CAC = Zero)
        /\ IsNaN(cac[i].CAC) <=> (cac[i].new_customers = 0)

\* one cohort with spend on both channels and one cohort with no spend row
C7_Witness ==
  /\ MartBuilt
  /\ \E i \in DOMAIN cac, j \in DOMAIN cac :
       /\ { spend_csv[x].channel : x \in FileSpendRows(cac[i].cohort_month) } = Channels
       /\ cac[i].spend_total = FromInt(6)
       /\ FileSpendRows(cac[j].cohort_month) = {}
       /\ cac[j].CAC = Zero

\* C8: the run that repeats main on the same orders and spend computes the
\* same ltv_cum and the same summary as the first run, whatever ANY_VALUE
\* returned as acquisition_channel in either run.
C8_SameOutputs ==
  /\ (run = 2 /\ LtvReturned) => ltv_cum = prev.ltv_cum
  /\ (run = 2 /\ SummaryBuilt) => summary = prev.summary

\* the second run is over, and ANY_VALUE gave some customer another
\* acquisition_channel than in the first run
C8_Witness ==
  /\ run = 2 /\ SummaryBuilt
  /\ first_orders # prev.first_orders
  /\ summary # << >>
  /\ summary = prev.summary

\* C9: no output file is written unless all computation has succeeded: a
\* run that fails at any step, chart export included, has written neither
\* the spreadsheet nor the image when it aborts.
C9_NoPartialOutput ==
  pc = "failed" => (~xlsx_written /\ ~png_written)

\* C9 (amended): no output file is written before load_inputs,
\* build_mart_and_cohorts, ltv_tables and the summary computation have
\* succeeded, and the image is not written before the spreadsheet block is
\* over; a run that fails at one of those steps has written neither file.
C9_NoOutputBeforeSummary ==
  /\ (xlsx_written \/ png_written) => SummaryPassed
  /\ png_written => (pc = "done" \/ (pc = "failed" /\ failed_at = "export_png"))
  /\ (pc = "failed" /\ failed_at \in {"load_inputs", "build_mart_and_cohorts", "summary"})
       => (~xlsx_written /\ ~png_written)

\* the run on an empty orders file: the summary computation raises, and no
\* file has been written
C9_Witness ==
  /\ pc = "failed" /\ failed_at = "summary"
  /\ orders_csv = << >>
  /\ ~xlsx_written /\ ~png_written

\* the customers of the orders file acquired in month cm
CohortCustomers(cm) ==
  { c \in FileCustomers :
      \E e \in EarliestRows(c) : YearMonth(orders_csv[e].order_date) = cm }

RECURSIVE SumFileRevenue(_)
\* the sum of column revenue over a set of rows of the orders file
SumFileRevenue(I) ==
  IF I = {} THEN 0
  ELSE LET i == CHOOSE x \in I : TRUE
       IN  orders_csv[i].revenue + SumFileRevenue(I \ {i})

\* the revenue of all orders of the customers acquired in month cm
CohortTotalRevenue(cm) ==
  SumFileRevenue(UNION { FileRowsOf(c) : c \in CohortCustomers(cm) })

\* the value of row cm of ltv_cum in the column before its j-th, 0 if none
PreviousCum(cm, j) ==
  IF j = 1 THEN Zero ELSE ltv_cum.data[<< cm, ltv_cum.columns[j - 1] >>]

\* C10: ltv_cum is dense over the cohort_months of cohort_rev and the
\* months_since_cohort observed for any cohort; where a cohort has no order
\* at an observed offset its cumulative value is that of the previous
\* observed offset (0 if none); the value at the greatest observed offset,
\* LTV_latest, is the cohort's total revenue over its new_customers.
C10_DenseTable ==
  /\ LtvReturned =>
       /\ Range(ltv_cum.index) = { cohort_rev[i].cohort_month : i \in DOMAIN cohort_rev }
       /\ Range(ltv_cum.columns) =
            { cohort_rev[i].months_since_cohort : i \in DOMAIN cohort_rev }
       /\ DOMAIN ltv_cum.data = Range(ltv_cum.index) \X Range(ltv_cum.columns)
       /\ \A cm \in Range(ltv_cum.index) : \A j \in DOMAIN ltv_cum.columns :
            RevRows(cm, ltv_cum.columns[j]) = {} =>
              ltv_cum.data[<< cm, ltv_cum.columns[j] >>] = PreviousCum(cm, j)
  /\ SummaryBuilt =>
       /\ Len(summary) = Len(ltv_cum.index)
       /\ \A i \in DOMAIN summary :
            /\ summary[i].cohort_month = ltv_cum.index[i]
            /\ summary[i].LTV_latest =
                 Num(CohortTotalRevenue(summary[i].cohort_month),
                     Cardinality(CohortCustomers(summary[i].cohort_month)))

\* the December cohort orders again in January, the January cohort has no
\* order one month after its own: its row repeats its offset-0 value
C10_Witness ==
  /\ SummaryBuilt
  /\ Len(summary) = 2
  /\ ltv_cum.index = << 202312, 202401 >>
  /\ ltv_cum.columns = << 0, 1 >>
  /\ RevRows(202401, 1) = {}
  /\ ltv_cum.data[<< 202401, 1 >>] = ltv_cum.data[<< 202401, 0 >>]
  /\ ltv_cum.data[<< 202401, 0 >>] # Zero
  /\ ltv_cum.data[<< 202312, 1 >>] # ltv_cum.data[<< 202312, 0 >>]

====
